---- MODULE Spec2Model ----
(***************************************************************************)
(* GA4 -> Google Sheets sync (src/ga4_to_excel.py).                        *)
(*                                                                         *)
(* State: the destination worksheet, the position of the script           *)
(* (one-time main(), then continuous_sync's loop), and `last`, the record  *)
(* of the main() invocation that has just ended (inputs, external calls    *)
(* issued, outcome); `last` is blank again once the loop moves on.         *)
(*                                                                         *)
(* A DataFrame is [hasDate, rows]: whether it has a 'date' column, and its *)
(* rows in order.  A row is [date, fetch, idx]: its date cell, the fetch   *)
(* that produced it and its position in that fetch's API response (the     *)
(* other cells of a row are carried along unchanged by every operation).   *)
(* A formatted date 'YYYY-MM-DD' is the triple <<YYYY, MM, DD>>; string    *)
(* order on the zero-padded text is the lexicographic order of the triple. *)
(* NaN (a missing cell) is the empty tuple.                                *)
(***************************************************************************)
EXTENDS Integers, Sequences, FiniteSets, TLC

VARIABLES pc, sheet, fetches, delivered, last, CONFIG, lastWriter, waited, started,
          interrupted, column, formatted

vars == <<pc, sheet, fetches, delivered, last, CONFIG, lastWriter, waited, started,
          interrupted, column, formatted>>

(* ---------------------------- bounds ----------------------------------- *)
\* rows the reporting API delivers over a behaviour, all reports together
MaxRows == 3
\* characters per metric source string
MaxStr == 2
\* rows of the metric column handed to format_dataframe
MaxCol == 2

\* raw 'date' dimension values the API returns (YYYYMMDD numerals); the last
\* one names no calendar day
RawDates == {20231231, 20240103, 20240230}

\* characters of metric source strings
Chars == {"-", "0", "1", ".", "x"}

(* ---------------------------- data ------------------------------------- *)
NaN == <<>>

EmptyDf == [hasDate |-> FALSE, rows |-> <<>>]

\* mutant: a test for None instead of df.empty
DfEmpty_never(df) == FALSE

DfEmpty(df) == df.rows = <<>>

Range(s) == {s[i] : i \in 1..Len(s)}

SeqsUpTo(S, n) == UNION {[1..k -> S] : k \in 0..n}

(* ---------------------------- format_dataframe: date ------------------- *)
IsLeap(y) == (y % 4 = 0 /\ y % 100 # 0) \/ y % 400 = 0

DaysInMonth(y, m) ==
    IF m \in {4, 6, 9, 11} THEN 30
    ELSE IF m = 2 THEN (IF IsLeap(y) THEN 29 ELSE 28)
    ELSE 31

\* pd.to_datetime(raw, format='%Y%m%d', errors='coerce').dt.strftime('%Y-%m-%d')
FormatDate(raw) ==
    LET y == raw \div 10000
        m == (raw \div 100) % 100
        d == raw % 100
    IN IF m \in 1..12 /\ d \in 1..DaysInMonth(y, m) THEN <<y, m, d>> ELSE NaN

\* a > b on formatted date strings
DateGT(a, b) ==
    \/ a[1] > b[1]
    \/ a[1] = b[1] /\ a[2] > b[2]
    \/ a[1] = b[1] /\ a[2] = b[2] /\ a[3] > b[3]

(* ---------------------------- format_dataframe: count metrics ---------- *)
\* A metric source string is a sequence of characters.  "x" stands for any
\* character no numeral contains.
IsDigit(c) == c \in {"0", "1"}

Digit(c) == IF c = "1" THEN 1 ELSE 0

RECURSIVE DigitsValue(_)
DigitsValue(ds) ==
    IF ds = <<>> THEN 0
    ELSE 10 * DigitsValue(SubSeq(ds, 1, Len(ds) - 1)) + Digit(ds[Len(ds)])

RECURSIVE Pow10(_)
Pow10(n) == IF n = 0 THEN 1 ELSE 10 * Pow10(n - 1)

Unsigned(s) == IF s # <<>> /\ s[1] = "-" THEN Tail(s) ELSE s

\* [-] digits [. digits], with a digit on at least one side of the point
IsNumeral(s) ==
    LET u == Unsigned(s)
    IN /\ \A i \in 1..Len(u) : IsDigit(u[i]) \/ u[i] = "."
       /\ \E i \in 1..Len(u) : IsDigit(u[i])
       /\ Cardinality({i \in 1..Len(u) : u[i] = "."}) <= 1

\* pd.to_numeric(s, errors='coerce'): the number num/den, or NaN
to_numeric(s) ==
    IF ~IsNumeral(s) THEN [nan |-> TRUE, num |-> 0, den |-> 1]
    ELSE LET u == Unsigned(s)
             point == {i \in 1..Len(u) : u[i] = "."}
             decimals == IF point = {} THEN 0
                         ELSE Len(u) - (CHOOSE i \in point : TRUE)
             magnitude == DigitsValue(SelectSeq(u, IsDigit))
         IN [nan |-> FALSE,
             num |-> IF u # s THEN 0 - magnitude ELSE magnitude,
             den |-> Pow10(decimals)]

\* pd.to_numeric(column, errors='coerce').fillna(0).astype('Int64'):
\* astype raises on a value that is not a whole number, and then the whole
\* batch fails
format_count_metric(col) ==
    LET parsed == [i \in 1..Len(col) |-> to_numeric(col[i])]
        filled == [i \in 1..Len(col) |->
                     IF parsed[i].nan THEN [nan |-> FALSE, num |-> 0, den |-> 1]
                     ELSE parsed[i]]
    IN IF \E i \in 1..Len(col) : filled[i].num % filled[i].den # 0
       THEN [raised |-> TRUE, values |-> <<>>]
       ELSE [raised |-> FALSE,
             values |-> [i \in 1..Len(col) |-> filled[i].num \div filled[i].den]]

(* ---------------------------- get_credentials -------------------------- *)
\* GOOGLE_CREDENTIALS_JSON: not in the environment, set to the empty string,
\* set to text that is not JSON, or set to a service-account JSON document
EnvValues == {"unset", "empty", "badjson", "valid"}

\* mutant: the local files are tried before the environment variable
get_credentials_file_first(env, file) ==
    IF file THEN [raised |-> FALSE, source |-> "file"]
    ELSE IF env \notin {"unset", "empty"}
         THEN [raised |-> env = "badjson", source |-> "env"]
         ELSE [raised |-> TRUE, source |-> "none"]

\* env: the value of the variable; file: some candidate path exists
get_credentials(env, file) ==
    IF env \notin {"unset", "empty"}
    THEN [raised |-> env = "badjson", source |-> "env"]
    ELSE IF file
         THEN [raised |-> FALSE, source |-> "file"]
         ELSE [raised |-> TRUE, source |-> "none"]

(* ---------------------------- fetch_ga4_data --------------------------- *)
\* the rows of one API response: the raw 'date' dimension value of each row
\* (0 when 'date' is not among the requested dimensions)
Reports(withDate, n) ==
    SeqsUpTo(IF withDate THEN RawDates ELSE {0}, n)

\* response -> DataFrame; id identifies the fetch (the last_updated stamp).
\* An exception anywhere in the method is the failure of "run_report".
fetch_ga4_data(api, withDate, id) ==
    IF api = <<>> THEN EmptyDf
    ELSE [hasDate |-> withDate,
          rows |-> [i \in 1..Len(api) |->
                      [date |-> IF withDate THEN FormatDate(api[i]) ELSE NaN,
                       fetch |-> id, idx |-> i]]]

(* ---------------------------- get_existing_sheet_data ------------------ *)
\* ws: the worksheet's cells.  A read that raises an Exception is caught and
\* reported as an empty sheet; a KeyboardInterrupt is not caught.
get_existing_sheet_data(ws, fail, exc) ==
    IF fail = "get_as_dataframe"
    THEN [raised |-> exc # "Exception", df |-> EmptyDf]
    ELSE IF ws.rows = <<>>
         THEN [raised |-> FALSE, df |-> EmptyDf]
         ELSE [raised |-> FALSE,
               df |-> [hasDate |-> ws.hasDate /\ \E r \in Range(ws.rows) : r.date # NaN,
                       rows |-> ws.rows]]

(* ---------------------------- reconcile -------------------------------- *)
Dates(rows) == {r.date : r \in Range(rows)}

\* mutant: the duplicate dates are never removed
DropDuplicates_keep_all(df, existing_df) == existing_df

\* the existing rows that survive the duplicate-date check
DropDuplicates(df, existing_df) ==
    IF ~DfEmpty(existing_df) /\ df.hasDate /\ existing_df.hasDate
    THEN LET duplicate_dates == Dates(df.rows) \cap Dates(existing_df.rows)
             Keep(r) == r.date \notin duplicate_dates
         IN IF duplicate_dates # {}
            THEN [existing_df EXCEPT !.rows = SelectSeq(@, Keep)]
            ELSE existing_df
    ELSE existing_df

\* mutant: the surviving rows are not appended
Combine_new_only(df, existing_df) == df

\* new data first
Combine(df, existing_df) ==
    IF DfEmpty(existing_df) THEN df
    ELSE [hasDate |-> df.hasDate \/ existing_df.hasDate,
          rows |-> df.rows \o existing_df.rows]

RemoveAt(s, i) == SubSeq(s, 1, i - 1) \o SubSeq(s, i + 1, Len(s))

RECURSIVE Perms(_)
Perms(s) ==
    IF s = <<>> THEN {<<>>}
    ELSE UNION {{<<s[i]>> \o p : p \in Perms(RemoveAt(s, i))} : i \in 1..Len(s)}

MaxDate(S) == CHOOSE d \in S : \A e \in S : e = d \/ DateGT(d, e)

\* the orders an argsort that promises nothing about equal keys can give to
\* rows that all have a date, largest date first
RECURSIVE SortDescending(_)
SortDescending(rows) ==
    IF rows = <<>> THEN {<<>>}
    ELSE LET d == MaxDate(Dates(rows))
             Is(r) == r.date = d
             Not(r) == r.date # d
         IN {g \o t : g \in Perms(SelectSeq(rows, Is)),
                      t \in SortDescending(SelectSeq(rows, Not))}

\* mutant: na_position='first'
sort_values_na_first(rows) ==
    LET HasDate(r) == r.date # NaN
        IsNaN(r) == r.date = NaN
    IN {SelectSeq(rows, IsNaN) \o s : s \in SortDescending(SelectSeq(rows, HasDate))}

\* final_df.sort_values('date', ascending=False): kind='quicksort' (the
\* default, not stable), na_position='last' (NaN rows keep their order)
sort_values(rows) ==
    LET HasDate(r) == r.date # NaN
        IsNaN(r) == r.date = NaN
    IN {s \o SelectSeq(rows, IsNaN) : s \in SortDescending(SelectSeq(rows, HasDate))}

SortByDate(df) ==
    IF df.hasDate THEN {[df EXCEPT !.rows = s] : s \in sort_values(df.rows)}
    ELSE {df}

(* ---------------------------- external calls --------------------------- *)
\* the network calls of one sync run, in the order the code issues them
\* ("worksheet": sheet.sheet1, since main() passes no worksheet name)
Calls == <<"run_report", "open_by_key", "worksheet", "get_as_dataframe",
           "clear", "set_with_dataframe", "format", "columns_auto_resize">>

SheetCalls == Range(Calls) \ {"run_report"}

\* the call that raises in a run ("none": every call succeeds) ...
FailPoints == Range(Calls) \cup {"none"}

\* ... and what it raises
Excs == {"Exception", "KeyboardInterrupt"}

(* ---------------------------- format_sheet_header ---------------------- *)
\* mutant: the handler logs and re-raises
format_sheet_header_reraise(fail, exc) ==
    IF fail = "format"
    THEN [calls |-> <<"format">>, raised |-> exc]
    ELSE IF fail = "columns_auto_resize"
         THEN [calls |-> <<"format", "columns_auto_resize">>, raised |-> exc]
         ELSE [calls |-> <<"format", "columns_auto_resize">>, raised |-> "no"]

\* an Exception of either call is caught and logged; the second call is not
\* issued after the first raised
format_sheet_header(fail, exc) ==
    IF fail = "format"
    THEN [calls |-> <<"format">>,
          raised |-> IF exc = "Exception" THEN "no" ELSE exc]
    ELSE IF fail = "columns_auto_resize"
         THEN [calls |-> <<"format", "columns_auto_resize">>,
               raised |-> IF exc = "Exception" THEN "no" ELSE exc]
         ELSE [calls |-> <<"format", "columns_auto_resize">>, raised |-> "no"]

(* ---------------------------- update_google_sheet ---------------------- *)
\* what one call of update_google_sheet did: the worksheet afterwards, the
\* calls issued, what it raised ("no": it returned), and the DataFrames of
\* its reconcile step (reconciled: the step was reached)
Update(ws, calls, raised, reconciled, existing, kept, concat, final) ==
    [sheet |-> ws, calls |-> calls, raised |-> raised, reconciled |-> reconciled,
     existing_df |-> existing, kept |-> kept, concat |-> concat, final_df |-> final]

NoUpdate(ws, calls, raised) ==
    Update(ws, calls, raised, FALSE, EmptyDf, EmptyDf, EmptyDf, EmptyDf)

\* the set of possible results (one per order the date sort may produce)
update_google_sheet(df, ws, fail, exc) ==
    IF DfEmpty(df) THEN {NoUpdate(ws, <<>>, "no")}
    ELSE IF fail = "open_by_key"
    THEN {NoUpdate(ws, <<"open_by_key">>, exc)}
    ELSE IF fail = "worksheet"
    THEN {NoUpdate(ws, <<"open_by_key", "worksheet">>, exc)}
    ELSE LET opened == <<"open_by_key", "worksheet", "get_as_dataframe">>
             read == get_existing_sheet_data(ws, fail, exc)
             kept == DropDuplicates(df, read.df)
             concat == Combine(df, kept)
             header == format_sheet_header(fail, exc)
         IN IF read.raised THEN {NoUpdate(ws, opened, exc)}
            ELSE {IF fail = "clear"
                  THEN Update(ws, opened \o <<"clear">>, exc,
                              TRUE, read.df, kept, concat, final)
                  ELSE IF fail = "set_with_dataframe"
                  THEN Update(EmptyDf, opened \o <<"clear", "set_with_dataframe">>, exc,
                              TRUE, read.df, kept, concat, final)
                  ELSE Update(final,
                              opened \o <<"clear", "set_with_dataframe">> \o header.calls,
                              header.raised, TRUE, read.df, kept, concat, final)
                  : final \in SortByDate(concat)}

(* ---------------------------- sync_data -------------------------------- *)
\* one sync run: setup_clients (get_credentials), fetch_ga4_data and, for a
\* non-empty DataFrame, update_google_sheet.  The set of possible results:
\* the credential source, the fetched DataFrame, every call issued, what the
\* run raised ("no": it returned) and what update_google_sheet did.
sync_data(env, file, api, withDate, id, ws, fail, exc) ==
    LET cred == get_credentials(env, file)
        df == fetch_ga4_data(api, withDate, id)
        Run(d, calls, raised, u) ==
            [source |-> cred.source, df |-> d, calls |-> calls, raised |-> raised,
             update |-> u]
    IN IF cred.raised
       THEN {Run(EmptyDf, <<>>, "Exception", NoUpdate(ws, <<>>, "no"))}
       ELSE IF fail = "run_report"
       THEN {Run(EmptyDf, <<"run_report">>, exc, NoUpdate(ws, <<>>, "no"))}
       ELSE IF DfEmpty(df)
       THEN {Run(df, <<"run_report">>, "no", NoUpdate(ws, <<>>, "no"))}
       ELSE {Run(df, <<"run_report">> \o u.calls, u.raised, u)
             : u \in update_google_sheet(df, ws, fail, exc)}

(* ---------------------------- main ------------------------------------- *)
\* main() prints its banner outside its try block, then runs sync_data inside
\* it; the try block catches Exception and nothing else.
\* banner: FALSE when a print of the banner raises.  sync: how sync_data
\* ended; raised: what main() itself raised ("no": it returned).
main(banner, env, file, api, withDate, id, ws, fail, exc) ==
    IF ~banner
    THEN {[banner |-> FALSE, env |-> env, file |-> file, api |-> api, fail |-> fail,
           exc |-> exc, source |-> "none", df |-> EmptyDf, calls |-> <<>>,
           sync |-> "not called", raised |-> "Exception",
           update |-> NoUpdate(ws, <<>>, "no")]}
    ELSE {[banner |-> TRUE, env |-> env, file |-> file, api |-> api, fail |-> fail,
           exc |-> exc, source |-> r.source, df |-> r.df, calls |-> r.calls,
           sync |-> IF r.raised = "no" THEN "returned" ELSE "raised",
           raised |-> IF r.raised = "Exception" THEN "no" ELSE r.raised,
           update |-> r.update]
          : r \in sync_data(env, file, api, withDate, id, ws, fail, exc)}

\* mutant: the except branch goes round without sleeping
continuous_sync_no_retry_sleep(raised) ==
    IF raised = "no" THEN "sleep"
    ELSE IF raised = "KeyboardInterrupt" THEN "stopped"
    ELSE "loop"

\* the while loop of continuous_sync: where control goes after main()
continuous_sync(raised) ==
    IF raised = "no" THEN "sleep"
    ELSE IF raised = "KeyboardInterrupt" THEN "stopped"
    ELSE "retry_sleep"

\* the script body: main() once, then continuous_sync(60)
script(raised) == IF raised = "no" THEN "loop" ELSE "crashed"

(* ---------------------------- state machine ---------------------------- *)
ValidDates == {FormatDate(r) : r \in RawDates} \ {NaN}

NoRun ==
    [banner |-> TRUE, env |-> "unset", file |-> FALSE, api |-> <<>>, fail |-> "none",
     exc |-> "Exception", source |-> "none", df |-> EmptyDf, calls |-> <<>>,
     sync |-> "not called", raised |-> "no", update |-> NoUpdate(EmptyDf, <<>>, "no")]

\* CONFIG['DIMENSIONS'] as the user has edited it: with or without 'date'
InitSync ==
    /\ pc = "script"
    /\ sheet = EmptyDf
    /\ fetches = 0
    /\ delivered = 0
    /\ last = NoRun
    /\ CONFIG \in [withDate : BOOLEAN]
    /\ lastWriter = [d \in ValidDates |-> 0]
    /\ waited = 0
    /\ started = FALSE
    /\ interrupted = FALSE

\* the inputs of a run that matter: a failing call is one the run reaches,
\* and a report has rows only when the request is made
Inputs(m) ==
    /\ m.fail # "none" => m.fail \in Range(m.calls)
    /\ m.api # <<>> => "run_report" \in Range(m.calls)

Wrote(m) == m.update.reconciled /\ m.fail \notin {"clear", "set_with_dataframe"}

\* one invocation of main(): its effect on the worksheet and the bookkeeping
Invoke(m) ==
    /\ Inputs(m)
    /\ last' = m
    /\ sheet' = m.update.sheet
    /\ fetches' = IF m.api # <<>> THEN fetches + 1 ELSE fetches
    /\ delivered' = delivered + Len(m.api)
    /\ lastWriter' = [d \in ValidDates |->
                        IF Wrote(m) /\ d \in Dates(m.df.rows)
                        THEN fetches + 1 ELSE lastWriter[d]]
    /\ interrupted' = (m.raised = "KeyboardInterrupt")
    /\ UNCHANGED <<CONFIG, column, formatted>>

\* line 372: the one-time sync
ScriptMain ==
    /\ pc = "script"
    /\ \E banner \in BOOLEAN :
       \E env \in IF banner THEN EnvValues ELSE {"unset"} :
       \E file \in IF banner THEN BOOLEAN ELSE {FALSE} :
       \E fail \in IF banner THEN FailPoints ELSE {"none"} :
       \E exc \in IF fail = "none" THEN {"Exception"} ELSE Excs :
       \E api \in IF fail = "run_report"
                  THEN {<<>>} ELSE Reports(CONFIG.withDate, MaxRows - delivered) :
       \E m \in main(banner, env, file, api, CONFIG.withDate, fetches + 1, sheet,
                     fail, exc) :
         /\ Invoke(m)
         /\ pc' = script(m.raised)
    /\ UNCHANGED <<waited, started>>

\* line 359: one iteration of the loop
LoopMain ==
    /\ pc = "loop"
    /\ \E banner \in BOOLEAN :
       \E env \in IF banner THEN EnvValues ELSE {"unset"} :
       \E file \in IF banner THEN BOOLEAN ELSE {FALSE} :
       \E fail \in IF banner THEN FailPoints ELSE {"none"} :
       \E exc \in IF fail = "none" THEN {"Exception"} ELSE Excs :
       \E api \in IF fail = "run_report"
                  THEN {<<>>} ELSE Reports(CONFIG.withDate, MaxRows - delivered) :
       \E m \in main(banner, env, file, api, CONFIG.withDate, fetches + 1, sheet,
                     fail, exc) :
         /\ Invoke(m)
         /\ pc' = continuous_sync(m.raised)
    /\ waited' = 0
    /\ started' = TRUE

\* line 361: time.sleep returns
Sleep ==
    /\ pc = "sleep"
    /\ pc' = "loop"
    /\ waited' = waited + 1
    /\ last' = NoRun
    /\ UNCHANGED <<sheet, fetches, delivered, CONFIG, lastWriter, started, interrupted,
                   column, formatted>>

\* line 368: time.sleep of the except branch returns
RetrySleep ==
    /\ pc = "retry_sleep"
    /\ pc' = "loop"
    /\ waited' = waited + 1
    /\ last' = NoRun
    /\ UNCHANGED <<sheet, fetches, delivered, CONFIG, lastWriter, started, interrupted,
                   column, formatted>>

\* Ctrl-C while the loop sleeps
KeyboardInterrupt ==
    /\ pc \in {"sleep", "retry_sleep"}
    /\ pc' = "stopped"
    /\ interrupted' = TRUE
    /\ last' = NoRun
    /\ UNCHANGED <<sheet, fetches, delivered, CONFIG, lastWriter, waited, started,
                   column, formatted>>

Init == InitSync /\ column = <<>> /\ formatted = [raised |-> FALSE, values |-> <<>>]

Next == ScriptMain \/ LoopMain \/ Sleep \/ RetrySleep \/ KeyboardInterrupt

Spec == Init /\ [][Next]_vars

(* ---------------------------- format_dataframe on its own -------------- *)
Strings == SeqsUpTo(Chars, MaxStr)

InitFormat ==
    /\ pc = "raw"
    /\ column \in SeqsUpTo(Strings, MaxCol) \ {<<>>}
    /\ formatted = [raised |-> FALSE, values |-> <<>>]
    /\ sheet = EmptyDf
    /\ fetches = 0
    /\ delivered = 0
    /\ last = NoRun
    /\ CONFIG = [withDate |-> TRUE]
    /\ lastWriter = [d \in ValidDates |-> 0]
    /\ waited = 0
    /\ started = FALSE
    /\ interrupted = FALSE

\* lines 154-158 for one count metric of a non-empty DataFrame
FormatColumn ==
    /\ pc = "raw"
    /\ formatted' = format_count_metric(column)
    /\ pc' = "formatted"
    /\ UNCHANGED <<sheet, fetches, delivered, last, CONFIG, lastWriter, waited, started,
                   interrupted, column>>

NextFormat == FormatColumn

SpecFormat == InitFormat /\ [][NextFormat]_vars

\* the scheduling of the script: a time.sleep that is not interrupted returns
FairSpec == Spec /\ WF_vars(Sleep) /\ WF_vars(RetrySleep)

(* ---------------------------- properties ------------------------------- *)
\* a step that is one invocation of main()
RunStep == pc \in {"script", "loop"} /\ pc' # pc

\* a >= b on date cells; a missing date (an empty cell) is below every date
DateGE(a, b) == b = NaN \/ (a # NaN /\ ~DateGT(b, a))

NonIncreasing(rows) ==
    \A i \in 1..(Len(rows) - 1) : DateGE(rows[i].date, rows[i + 1].date)

Pos(rows, r) == CHOOSE i \in 1..Len(rows) : rows[i] = r

\* C1: after any sequence of runs, every row of the sheet that has a date d
\* comes from one fetch: the most recent run that wrote the sheet and whose
\* fetched rows contained d.  No row of an older fetch survives for d.
C1_OneFetchPerDate ==
    \A r \in Range(sheet.rows) : r.date # NaN => r.fetch = lastWriter[r.date]

C1_Witness ==
    /\ Wrote(last)
    /\ \E e \in Range(last.update.existing_df.rows), n \in Range(last.df.rows) :
         /\ e.date = n.date /\ e.date # NaN /\ e.fetch # n.fetch
         /\ \E k \in Range(sheet.rows) : k.fetch = e.fetch

\* C2: one reconcile step with new rows N and existing rows E that both have
\* a date column yields exactly the rows of N and the rows of E whose date
\* does not occur in N, each once: |N| + |{e in E : e.date not in dates(N)}|
\* rows in all.
C2_ReconcileExact ==
    (last.update.reconciled /\ last.df.hasDate /\ last.update.existing_df.hasDate) =>
        LET N == last.df.rows
            E == last.update.existing_df.rows
            F == last.update.final_df.rows
            Surviving == {e \in Range(E) : e.date \notin Dates(N)}
        IN /\ Range(F) = Range(N) \cup Surviving
           /\ Len(F) = Len(N) + Cardinality(Surviving)
           /\ Cardinality(Range(F)) = Len(F)

C2_Witness ==
    /\ last.update.reconciled /\ last.df.hasDate /\ last.update.existing_df.hasDate
    /\ \E e \in Range(last.update.existing_df.rows) : e.date \in Dates(last.df.rows)
    /\ \E e \in Range(last.update.existing_df.rows) : e.date \notin Dates(last.df.rows)

\* C3: every record set with a date column that update_google_sheet writes,
\* and so the sheet itself, is non-increasing by date, rows without a date
\* (the null marker) included: date[i] >= date[i+1] for adjacent rows.
C3_WrittenNonIncreasing ==
    /\ ("set_with_dataframe" \in Range(last.calls) /\ last.update.final_df.hasDate)
           => NonIncreasing(last.update.final_df.rows)
    /\ sheet.hasDate => NonIncreasing(sheet.rows)

C3_Witness ==
    /\ Wrote(last)
    /\ sheet = last.update.final_df
    /\ sheet.hasDate
    /\ last.update.kept.rows # <<>>
    /\ ~NonIncreasing(last.update.concat.rows)
    /\ \E r \in Range(sheet.rows) : r.date = NaN
    /\ Cardinality(Dates(sheet.rows)) >= 3

\* C4: the date sort keeps the concatenation order (new rows, then surviving
\* existing rows) among rows of equal date; without a date column the result
\* is the new rows followed by the existing rows.
C4_StableSort ==
    last.update.reconciled =>
        LET C == last.update.concat.rows
            F == last.update.final_df.rows
        IN IF last.update.concat.hasDate
           THEN \A i, j \in 1..Len(C) :
                    (i < j /\ C[i].date = C[j].date) => Pos(F, C[i]) < Pos(F, C[j])
           ELSE F = last.df.rows \o last.update.existing_df.rows

\* the credentials resolve and the report request succeeds with zero rows
ZeroRows(m) ==
    /\ m.banner
    /\ ~get_credentials(m.env, m.file).raised
    /\ m.fail # "run_report"
    /\ m.api = <<>>

\* C5: a run whose report has zero rows returns without raising, issues no
\* spreadsheet call, and leaves the sheet as it was.
C5_EmptyFetchNoOp ==
    [][(RunStep /\ ZeroRows(last')) =>
          /\ last'.sync = "returned"
          /\ last'.raised = "no"
          /\ Range(last'.calls) \cap SheetCalls = {}
          /\ sheet' = sheet]_vars

C5_Witness ==
    /\ ZeroRows(last)
    /\ last.sync = "returned"
    /\ last.calls = <<"run_report">>
    /\ sheet.rows # <<>>

\* C6: an error of a spreadsheet call other than header formatting aborts the
\* run: sync_data raises, and no clear or write follows the failed call.
C6_SheetErrorsAbort ==
    (/\ last.exc = "Exception"
     /\ last.fail \in {"open_by_key", "worksheet", "get_as_dataframe", "clear",
                       "set_with_dataframe"}) =>
        /\ last.sync = "raised"
        /\ \A i, j \in 1..Len(last.calls) :
              (last.calls[i] = last.fail /\ i < j) =>
                  last.calls[j] \notin {"clear", "set_with_dataframe"}

\* C7: format_dataframe never fails on a count metric column, every value it
\* produces is a non-negative integer, and a source string that is missing
\* or is no number becomes 0.
C7_CountsNonNegative ==
    pc = "formatted" =>
        /\ ~formatted.raised
        /\ Len(formatted.values) = Len(column)
        /\ \A i \in 1..Len(formatted.values) :
              /\ formatted.values[i] \in Nat
              /\ to_numeric(column[i]).nan => formatted.values[i] = 0

\* C8: in continuous_sync an error of a sync iteration is caught and the loop
\* goes on; after every iteration the loop sleeps exactly once before the
\* next one; only a KeyboardInterrupt ends the loop; after an iteration,
\* failed or not, control is back at the top of the loop, where the next
\* main() is the only step, unless the user interrupts.
C8_LoopSurvivesErrors ==
    /\ [][(pc = "loop" /\ pc' # "loop") =>
             /\ (last'.sync = "raised" /\ last'.exc = "Exception") => last'.raised = "no"
             /\ IF last'.raised = "KeyboardInterrupt"
                THEN pc' = "stopped"
                ELSE pc' \in {"sleep", "retry_sleep"}
             /\ started => waited = 1]_vars
    /\ [](pc = "stopped" => interrupted)
    /\ (pc \in {"sleep", "retry_sleep"}) ~> (pc = "stopped" \/ (pc = "loop" /\ waited = 1))

C8_Witness ==
    /\ pc = "sleep"
    /\ started
    /\ last.sync = "raised"
    /\ last.raised = "no"
    /\ sheet.rows # <<>>

\* C9 as stated: with the variable unset and no candidate file the run ends
\* in a configuration error before any call and the sheet is unchanged; a
\* variable that is set wins over every local file.
C9_SetVariableWins ==
    [][(RunStep /\ last'.banner) =>
          /\ (last'.env = "unset" /\ ~last'.file) =>
                /\ last'.sync = "raised"
                /\ last'.calls = <<>>
                /\ sheet' = sheet
          /\ last'.env # "unset" => last'.source = "env"]_vars

\* C9, amended: as above, but it is a variable set to a non-empty value
\* that wins over every local file.
C9_NonEmptyVariableWins ==
    [][(RunStep /\ last'.banner) =>
          /\ (last'.env = "unset" /\ ~last'.file) =>
                /\ last'.sync = "raised"
                /\ last'.calls = <<>>
                /\ sheet' = sheet
          /\ last'.env \notin {"unset", "empty"} => last'.source = "env"]_vars

C9_Witness ==
    /\ last.banner
    /\ last.env = "unset"
    /\ ~last.file
    /\ last.sync = "raised"
    /\ last.calls = <<>>
    /\ sheet.rows # <<>>

\* C10: an error of header formatting or of the column resize comes after
\* the clear and the write, is caught, and leaves the run successful and the
\* sheet holding the complete reconciled record set.
C10_FormatFailureHarmless ==
    (last.exc = "Exception" /\ last.fail \in {"format", "columns_auto_resize"}) =>
        /\ last.update.raised = "no"
        /\ last.sync = "returned"
        /\ last.raised = "no"
        /\ \E i \in 1..(Len(last.calls) - 2) :
              /\ last.calls[i] = "clear"
              /\ last.calls[i + 1] = "set_with_dataframe"
              /\ last.calls[i + 2] = "format"
        /\ sheet = last.update.final_df
        /\ Range(sheet.rows) = Range(last.df.rows) \cup Range(last.update.kept.rows)

C10_Witness ==
    /\ last.exc = "Exception"
    /\ last.fail = "format"
    /\ last.sync = "returned"
    /\ last.update.kept.rows # <<>>
    /\ sheet = last.update.final_df

====
